---- MODULE Spec2Model ----
(***************************************************************************)
(* HTTPProxyScheduler (scheduler.py): a Mesos scheduler that forwards each *)
(* resource offer to an HTTP decision service and launches the tasks the   *)
(* service answers with.                                                   *)
(*                                                                         *)
(* The driver delivers callbacks one at a time.  resourceOffers is modelled*)
(* one loop iteration (one offer) per step; no other callback runs while   *)
(* the loop is in progress.  Variables after the program's own two         *)
(* counters are observation variables: what the handler sent to the        *)
(* decision service, what it passed to driver.launchTasks, what it logged. *)
(***************************************************************************)
EXTENDS Integers, Sequences, FiniteSets, TLC

\* ------------------------------------------------------------------ bounds
MaxCallbacks == 2   \* callbacks delivered in one run
MaxBatch == 2       \* offers in one resourceOffers call
MaxTasks == 2       \* TaskSpecs in one decision-service answer

\* ------------------------------------------------- protocol enum constants
TASK_STARTING == 0
TASK_RUNNING == 1
TASK_FINISHED == 2
TASK_FAILED == 3
TASK_KILLED == 4
TASK_LOST == 5
TASK_STAGING == 6

TaskStates ==
  {TASK_STARTING, TASK_RUNNING, TASK_FINISHED, TASK_FAILED, TASK_KILLED,
   TASK_LOST, TASK_STAGING}

TerminalStates == {TASK_FINISHED, TASK_FAILED, TASK_KILLED, TASK_LOST}

\* type tags of a resource / attribute protobuf
TYPE_SCALAR == 0
TYPE_RANGES == 1
TYPE_SET == 2
TYPE_TEXT == 3

\* mesos_pb2.Value.SCALAR, written into every launch request
SCALAR == 0

\* ------------------------------------------------------------ fixed fields
\* os.path.normpath on the components of an absolute path: "." and empty
\* components are dropped, ".." removes the component before it.
RECURSIVE Normpath(_, _)
Normpath(parts, acc) ==
  IF parts = <<>> THEN acc
  ELSE LET p == Head(parts)
       IN IF p = "." \/ p = "" THEN Normpath(Tail(parts), acc)
          ELSE IF p = ".."
            THEN Normpath(Tail(parts),
                          IF acc = <<>> THEN <<>>
                          ELSE SubSeq(acc, 1, Len(acc) - 1))
          ELSE Normpath(Tail(parts), Append(acc, p))

RECURSIVE PathStr(_)
PathStr(parts) ==
  IF parts = <<>> THEN ""
  ELSE "/" \o Head(parts) \o PathStr(Tail(parts))

\* os.path.abspath(path) for a relative path, in the working directory cwd;
\* both are given by their components.
Abspath(cwd, path) ==
  LET parts == Normpath(cwd \o path, <<>>)
  IN IF parts = <<>> THEN "/" ELSE PathStr(parts)

\* The ExecutorInfo built at start-up by a process started in cwd.
ExecutorInfo(cwd) ==
  [executor_id |-> "default",
   command |-> Abspath(cwd, <<".", "executor.py">>),
   name |-> "HTTP Proxy Executor", source |-> "http_proxy"]

\* working directories the framework is started in
Cwds == {<<"srv", "framework">>, <<>>}

VARIABLE
  executor        \* self.executor

\* self.service
Service == "http://localhost:5000/"

\* ------------------------------------------------------------------ inputs
\* A resource or attribute protobuf: its tag and the four payload fields.
Pb(name, type, scalar, ranges, set, text) ==
  [name |-> name, type |-> type, scalar |-> scalar, ranges |-> ranges,
   set |-> set, text |-> text]

PbScalar(name, v) == Pb(name, TYPE_SCALAR, v, <<>>, <<>>, "")
PbRanges(name, rs) == Pb(name, TYPE_RANGES, 0, rs, <<>>, "")
PbSet(name, items) == Pb(name, TYPE_SET, 0, <<>>, items, "")
PbText(name, t) == Pb(name, TYPE_TEXT, 0, <<>>, <<>>, t)
\* a tag outside the four known ones
PbUnknown(name) == Pb(name, 4, 0, <<>>, <<>>, "")

OfferPb(id, slave, host, resources, attributes) ==
  [id |-> id, framework_id |-> "fw", hostname |-> host, slave_id |-> slave,
   executor_ids |-> <<>>, resources |-> resources, attributes |-> attributes]

\* An offer every field of which decodes: {cpus: 4, mem: 2048} once the
\* repeated name is resolved, plus a range set and two attributes.
OfferA ==
  OfferPb("o1", "s1", "h1",
          <<PbScalar("cpus", 2), PbScalar("mem", 2048),
            PbRanges("ports", <<[begin |-> 31000, end |-> 32000]>>),
            PbScalar("cpus", 4)>>,
          <<PbText("rack", "r1"), PbSet("zones", <<"a", "b">>)>>)

\* An offer carrying a resource with an unknown tag.
OfferBad ==
  OfferPb("o2", "s2", "h2",
          <<PbScalar("cpus", 4), PbUnknown("gpu")>>, <<>>)

\* An offer carrying an attribute with an unknown tag.
OfferBadAttr ==
  OfferPb("o2", "s2", "h2",
          <<PbScalar("cpus", 4)>>, <<Pb("zone", 7, 0, <<>>, <<>>, "")>>)

Offers == {OfferA, OfferBad, OfferBadAttr}
OfferIds == {o.id : o \in Offers}

\* A JSON value used as a task id: a string or a number.
JStr(s) == [t |-> "str", s |-> s, n |-> 0]
JNum(n) == [t |-> "num", s |-> "", n |-> n]

\* One element of the decision service's answer.  keys is the set of keys
\* present in the JSON object ("cpus" and "mem" are keys of "resources").
TaskSpec(keys, id, cpus, mem) ==
  [keys |-> keys, id |-> id, cpus |-> cpus, mem |-> mem]

AllKeys == {"id", "resources", "cpus", "mem"}

\* id of the i-th TaskSpec of an answer: strings and numbers alternate
SpecId(i) == IF i % 2 = 1 THEN JStr(<<"t1", "t3", "t5">>[(i + 1) \div 2])
             ELSE JNum(i)

\* the i-th TaskSpec of an answer, complete
GoodSpec(i) == TaskSpec(AllKeys, SpecId(i), 4 * i - 3, 256 * i)

\* the i-th TaskSpec of an answer with one key missing
BadSpec(i, missing) ==
  TaskSpec(AllKeys \ {missing}, SpecId(i), 4 * i - 3, 256 * i)

WellFormed(spec) == spec.keys = AllKeys

\* answers: k complete TaskSpecs, or k - 1 complete ones followed by one
\* that lacks "mem" or "id"
GoodBody(k) == [i \in 1..k |-> GoodSpec(i)]
BadBody(k, missing) ==
  [i \in 1..k |-> IF i < k THEN GoodSpec(i) ELSE BadSpec(i, missing)]

Bodies ==
  {GoodBody(k) : k \in 0..MaxTasks}
    \cup {BadBody(k, m) : k \in 1..MaxTasks, m \in {"mem", "id"}}

\* What requests.post / resp.json() can produce: the connection fails, or a
\* response arrives with a status and a body that is a JSON list or is not
\* JSON at all.
NetworkFailure == [kind |-> "neterr", status |-> 0, json |-> FALSE, body |-> <<>>]
HttpResponse(status, json, body) ==
  [kind |-> "http", status |-> status, json |-> json, body |-> body]

\* the request is sent and no answer ever arrives: requests.post is called
\* without a timeout and does not return
NoAnswer == [kind |-> "hang", status |-> 0, json |-> FALSE, body |-> <<>>]

Responses ==
  {NetworkFailure, NoAnswer}
    \cup {HttpResponse(st, FALSE, <<>>) : st \in {200, 500}}
    \cup {HttpResponse(200, TRUE, b) : b \in Bodies}
    \cup {HttpResponse(500, TRUE, GoodBody(1))}

\* task ids carried by status updates
TaskIds == {"t1", "2"}

\* --------------------------------------------------------- pure operators
DigitStr == <<"0", "1", "2", "3", "4", "5", "6", "7", "8", "9">>

RECURSIVE Decimal(_)
Decimal(n) ==
  IF n < 10 THEN DigitStr[n + 1]
  ELSE Decimal(n \div 10) \o DigitStr[(n % 10) + 1]

\* str(tid)
Str(j) == IF j.t = "str" THEN j.s ELSE Decimal(j.n)

\* _decode_typed_field with the final else returning pb.text
DecodeTypedFieldLenient(pb) ==
  IF pb.type = TYPE_SCALAR THEN [ok |-> TRUE, value |-> pb.scalar]
  ELSE IF pb.type = TYPE_RANGES THEN [ok |-> TRUE, value |-> pb.ranges]
  ELSE IF pb.type = TYPE_SET THEN [ok |-> TRUE, value |-> pb.set]
  ELSE [ok |-> TRUE, value |-> pb.text]

\* _decode_typed_field: the payload selected by the tag, or an exception
DecodeTypedField(pb) ==
  IF pb.type = TYPE_SCALAR THEN [ok |-> TRUE, value |-> pb.scalar]
  ELSE IF pb.type = TYPE_RANGES
    THEN [ok |-> TRUE,
          value |-> [i \in 1..Len(pb.ranges) |->
                       [begin |-> pb.ranges[i].begin, end |-> pb.ranges[i].end]]]
  ELSE IF pb.type = TYPE_SET THEN [ok |-> TRUE, value |-> pb.set]
  ELSE IF pb.type = TYPE_TEXT THEN [ok |-> TRUE, value |-> pb.text]
  ELSE [ok |-> FALSE, value |-> pb.type]

\* _decode_attribute: {name: value}
DecodeAttribute(attr_pb) ==
  LET d == DecodeTypedField(attr_pb)
  IN [ok |-> d.ok, name |-> attr_pb.name, value |-> d.value]

\* _decode_resource: (name, value)
DecodeResource(resource_pb) ==
  LET d == DecodeTypedField(resource_pb)
  IN [ok |-> d.ok, name |-> resource_pb.name, value |-> d.value]

\* index of the last resource carrying this name (a dict keeps the last)
LastIndex(pbs, name) ==
  CHOOSE i \in 1..Len(pbs) :
    /\ pbs[i].name = name
    /\ \A j \in (i + 1)..Len(pbs) : pbs[j].name # name

\* The dict sent to the decision service, or a decode exception.
OfferInfo(offer) ==
  LET attrs == [i \in 1..Len(offer.attributes) |->
                  DecodeAttribute(offer.attributes[i])]
      ress == [i \in 1..Len(offer.resources) |->
                  DecodeResource(offer.resources[i])]
      names == {offer.resources[i].name : i \in 1..Len(offer.resources)}
      good == /\ \A i \in 1..Len(attrs) : attrs[i].ok
              /\ \A i \in 1..Len(ress) : ress[i].ok
  IN IF ~good THEN [ok |-> FALSE, info |-> <<>>]
     ELSE [ok |-> TRUE,
           info |-> <<[attributes |->
                         [i \in 1..Len(attrs) |->
                            [name |-> attrs[i].name, value |-> attrs[i].value]],
                       executor_ids |-> offer.executor_ids,
                       framework_id |-> offer.framework_id,
                       hostname |-> offer.hostname,
                       id |-> offer.id,
                       resources |->
                         [nm \in names |->
                            ress[LastIndex(offer.resources, nm)].value],
                       slave_id |-> offer.slave_id]>>]

\* One scalar resource of a launch request.
ScalarResource(name, v) == [name |-> name, type |-> SCALAR, value |-> v]

\* The TaskInfo built for one TaskSpec with the cpus of another source.
BuildTaskOfferCpus(offer, task_to_run) ==
  [task_id |-> Str(task_to_run.id),
   slave_id |-> offer.slave_id,
   name |-> "task " \o Str(task_to_run.id),
   executor |-> executor,
   resources |-> <<ScalarResource("cpus", offer.resources[1].scalar),
                   ScalarResource("mem", task_to_run.mem)>>]

\* The TaskInfo built for one TaskSpec.
BuildTask(offer, task_to_run) ==
  [task_id |-> Str(task_to_run.id),
   slave_id |-> offer.slave_id,
   name |-> "task " \o Str(task_to_run.id),
   executor |-> executor,
   resources |-> <<ScalarResource("cpus", task_to_run.cpus),
                   ScalarResource("mem", task_to_run.mem)>>]

\* The inner loop over the answer: tasks built so far, increments made to
\* tasksLaunched so far, and whether a KeyError ended the loop.  The id is
\* read before the increment, the resources after it.
RECURSIVE BuildTasks(_, _, _, _)
BuildTasks(offer, specs, tasks, inc) ==
  IF specs = <<>> THEN [tasks |-> tasks, inc |-> inc, raised |-> FALSE]
  ELSE LET task_to_run == Head(specs)
       IN IF "id" \notin task_to_run.keys
            THEN [tasks |-> tasks, inc |-> inc, raised |-> TRUE]
          ELSE IF ~({"resources", "cpus", "mem"} \subseteq task_to_run.keys)
            THEN [tasks |-> tasks, inc |-> inc + 1, raised |-> TRUE]
          ELSE BuildTasks(offer, Tail(specs),
                          Append(tasks, BuildTask(offer, task_to_run)),
                          inc + 1)

\* One launchTasks call per task instead of one per offer.
LaunchPerTask(offer, tasks) ==
  [i \in 1..Len(tasks) |-> [offer_id |-> offer.id, tasks |-> <<tasks[i]>>]]

\* driver.launchTasks(offer.id, tasks): the calls made on the driver
LaunchTasks(offer, tasks) ==
  <<[offer_id |-> offer.id, tasks |-> tasks]>>

\* One iteration of the loop over offers, for the answer resp of the
\* decision service: the request sent (if any), the launchTasks calls made,
\* the increments to tasksLaunched and whether an exception left the loop.
HandleOffer(offer, resp) ==
  LET dec == OfferInfo(offer)
      built == BuildTasks(offer, resp.body, <<>>, 0)
  IN IF ~dec.ok
       THEN [request |-> <<>>, resp |-> <<>>, launches |-> <<>>, inc |-> 0,
             raised |-> TRUE, hung |-> FALSE]
     ELSE IF resp.kind = "hang"
       THEN [request |-> dec.info, resp |-> <<>>, launches |-> <<>>,
             inc |-> 0, raised |-> FALSE, hung |-> TRUE]
     ELSE IF resp.kind = "neterr" \/ ~resp.json
       THEN [request |-> dec.info, resp |-> <<resp>>, launches |-> <<>>,
             inc |-> 0, raised |-> TRUE, hung |-> FALSE]
     ELSE IF built.raised
       THEN [request |-> dec.info, resp |-> <<resp>>, launches |-> <<>>,
             inc |-> built.inc, raised |-> TRUE, hung |-> FALSE]
     ELSE [request |-> dec.info, resp |-> <<resp>>,
           launches |-> LaunchTasks(offer, built.tasks),
           inc |-> built.inc, raised |-> FALSE, hung |-> FALSE]

RECURSIVE TaskCount(_)
TaskCount(launches) ==
  IF launches = <<>> THEN 0
  ELSE Len(Head(launches).tasks) + TaskCount(Tail(launches))

\* ------------------------------------------------------------------- state
VARIABLES
  tasksLaunched,  \* self.tasksLaunched
  tasksFinished,  \* self.tasksFinished
  pc,             \* "idle", "offers" inside the loop of resourceOffers, or
                  \* "hung" inside a requests.post that never returns
  n,              \* len(offers) of the resourceOffers call in progress / last
  pos,            \* offers of that call taken from the list so far
  cur,            \* what the current loop iteration did with its offer
  lastcb,         \* the callback invoked last, and whether it raised
  ncalls,         \* callbacks invoked so far
  consumed,       \* offer ids passed to launchTasks so far
  submitted,      \* TaskInfos passed to launchTasks so far
  rescinded,      \* offer ids passed to offerRescinded so far
  finishedIds,    \* task ids that received a TASK_FINISHED update
  terminalIds,    \* task ids that received a terminal update
  reported,       \* per task id: the state logged by the last statusUpdate
  finishedSeen,   \* TASK_FINISHED updates delivered so far
  driver,         \* what driver.run() returns, or DRIVER_RUNNING
  exit,           \* <<status>> once the process called sys.exit(status)
  thr             \* per thread: its position inside a callback it runs

vars ==
  <<executor, tasksLaunched, tasksFinished, pc, n, pos, cur, lastcb, ncalls,
    consumed, submitted, rescinded, finishedIds, terminalIds, reported,
    finishedSeen, driver, exit, thr>>

progVars == <<tasksLaunched, tasksFinished>>
offerObs == <<consumed, submitted>>
statusObs == <<finishedIds, terminalIds, reported, finishedSeen>>
mainVars == <<driver, exit>>

\* threads that may run callbacks at the same time
Threads == {"A", "B"}

ThreadIdle == [pc |-> "idle", kind |-> "none", total |-> 0, left |-> 0, tmp |-> 0]

NoHandling ==
  [handled |-> FALSE, offer |-> <<>>, request |-> <<>>, resp |-> <<>>,
   launches |-> <<>>, inc |-> 0, raised |-> FALSE, hung |-> FALSE]

Callback(name, raised, arg) == [name |-> name, raised |-> raised, arg |-> arg]

\* __init__
Init ==
  /\ executor \in {ExecutorInfo(cwd) : cwd \in Cwds}
  /\ tasksLaunched = 0
  /\ tasksFinished = 0
  /\ pc = "idle"
  /\ n = 0
  /\ pos = 0
  /\ cur = NoHandling
  /\ lastcb = Callback("__init__", FALSE, <<>>)
  /\ ncalls = 0
  /\ consumed = {}
  /\ submitted = 0
  /\ rescinded = {}
  /\ finishedIds = {}
  /\ terminalIds = {}
  /\ reported = [t \in TaskIds |-> <<>>]
  /\ finishedSeen = 0
  /\ driver \in {"DRIVER_RUNNING", "DRIVER_NOT_STARTED"}
  /\ exit = <<>>
  /\ thr = [i \in Threads |-> ThreadIdle]

\* The driver is ready to deliver the next callback.
CanCall ==
  /\ pc = "idle"
  /\ driver = "DRIVER_RUNNING"
  /\ \A i \in Threads : thr[i].pc = "idle"
  /\ ncalls < MaxCallbacks

\* writes a log line
registered ==
  /\ CanCall
  /\ ncalls' = ncalls + 1
  /\ lastcb' = Callback("registered", FALSE, <<>>)
  /\ cur' = NoHandling
  /\ UNCHANGED <<executor, mainVars, thr, progVars, pc, n, pos, offerObs, rescinded, statusObs>>

\* reregistered that starts the counters afresh
reregisteredReset ==
  /\ CanCall
  /\ ncalls' = ncalls + 1
  /\ lastcb' = Callback("reregistered", FALSE, <<>>)
  /\ cur' = NoHandling
  /\ tasksLaunched' = 0
  /\ tasksFinished' = 0
  /\ UNCHANGED <<executor, mainVars, thr, pc, n, pos, offerObs, rescinded, statusObs>>

\* writes a log line
reregistered ==
  /\ CanCall
  /\ ncalls' = ncalls + 1
  /\ lastcb' = Callback("reregistered", FALSE, <<>>)
  /\ cur' = NoHandling
  /\ UNCHANGED <<executor, mainVars, thr, progVars, pc, n, pos, offerObs, rescinded, statusObs>>

\* writes a log line
disconnected ==
  /\ CanCall
  /\ ncalls' = ncalls + 1
  /\ lastcb' = Callback("disconnected", FALSE, <<>>)
  /\ cur' = NoHandling
  /\ UNCHANGED <<executor, mainVars, thr, progVars, pc, n, pos, offerObs, rescinded, statusObs>>

\* writes a log line
frameworkMessage ==
  /\ CanCall
  /\ ncalls' = ncalls + 1
  /\ lastcb' = Callback("frameworkMessage", FALSE, <<>>)
  /\ cur' = NoHandling
  /\ UNCHANGED <<executor, mainVars, thr, progVars, pc, n, pos, offerObs, rescinded, statusObs>>

\* writes a log line
slaveLost ==
  /\ CanCall
  /\ ncalls' = ncalls + 1
  /\ lastcb' = Callback("slaveLost", FALSE, <<>>)
  /\ cur' = NoHandling
  /\ UNCHANGED <<executor, mainVars, thr, progVars, pc, n, pos, offerObs, rescinded, statusObs>>

\* the log line names exeuctorId, which is not defined: NameError
executorLost ==
  /\ CanCall
  /\ ncalls' = ncalls + 1
  /\ lastcb' = Callback("executorLost", TRUE, <<>>)
  /\ cur' = NoHandling
  /\ UNCHANGED <<executor, mainVars, thr, progVars, pc, n, pos, offerObs, rescinded, statusObs>>

\* writes a log line; the driver was aborted before it made this call
error ==
  /\ CanCall
  /\ ncalls' = ncalls + 1
  /\ lastcb' = Callback("error", FALSE, <<>>)
  /\ cur' = NoHandling
  /\ driver' = "DRIVER_ABORTED"
  /\ UNCHANGED <<executor, exit, thr, progVars, pc, n, pos, offerObs, rescinded, statusObs>>

\* offerRescinded that takes back the launch counted for a consumed offer
offerRescindedUncount ==
  \E o \in OfferIds :
    /\ CanCall
    /\ ncalls' = ncalls + 1
    /\ lastcb' = Callback("offerRescinded", FALSE, <<o>>)
    /\ cur' = NoHandling
    /\ rescinded' = rescinded \cup {o}
    /\ tasksLaunched' = IF o \in consumed /\ tasksLaunched > 0
                        THEN tasksLaunched - 1 ELSE tasksLaunched
    /\ UNCHANGED <<executor, mainVars, thr, tasksFinished, pc, n, pos, offerObs,
                   statusObs>>

\* writes a log line; the offer id is not recorded by the program
offerRescinded ==
  \E o \in OfferIds :
    /\ CanCall
    /\ ncalls' = ncalls + 1
    /\ lastcb' = Callback("offerRescinded", FALSE, <<o>>)
    /\ cur' = NoHandling
    /\ rescinded' = rescinded \cup {o}
    /\ UNCHANGED <<executor, mainVars, thr, progVars, pc, n, pos, offerObs, statusObs>>

\* tasksFinished after an update with this state
FinishedAfter(count, state) ==
  IF state = TASK_FINISHED THEN count + 1 ELSE count

\* statusUpdate that looks the task up in a table of launched tasks and
\* raises KeyError for a task this process did not launch
statusUpdateLookup ==
  \E t \in TaskIds, s \in TaskStates :
    /\ CanCall
    /\ ncalls' = ncalls + 1
    /\ lastcb' = Callback("statusUpdate", submitted = 0, <<t, s>>)
    /\ cur' = NoHandling
    /\ reported' = [reported EXCEPT ![t] = <<s>>]
    /\ tasksFinished' = FinishedAfter(tasksFinished, s)
    /\ finishedSeen' = IF s = TASK_FINISHED THEN finishedSeen + 1
                       ELSE finishedSeen
    /\ finishedIds' = IF s = TASK_FINISHED THEN finishedIds \cup {t}
                      ELSE finishedIds
    /\ terminalIds' = IF s \in TerminalStates THEN terminalIds \cup {t}
                      ELSE terminalIds
    /\ UNCHANGED <<executor, mainVars, thr, tasksLaunched, pc, n, pos, offerObs,
                   rescinded>>

statusUpdate ==
  \E t \in TaskIds, s \in TaskStates :
    /\ CanCall
    /\ ncalls' = ncalls + 1
    /\ lastcb' = Callback("statusUpdate", FALSE, <<t, s>>)
    /\ cur' = NoHandling
    /\ reported' = [reported EXCEPT ![t] = <<s>>]
    /\ tasksFinished' = FinishedAfter(tasksFinished, s)
    /\ finishedSeen' = IF s = TASK_FINISHED THEN finishedSeen + 1
                       ELSE finishedSeen
    /\ finishedIds' = IF s = TASK_FINISHED THEN finishedIds \cup {t}
                      ELSE finishedIds
    /\ terminalIds' = IF s \in TerminalStates THEN terminalIds \cup {t}
                      ELSE terminalIds
    /\ UNCHANGED <<executor, mainVars, thr, tasksLaunched, pc, n, pos, offerObs, rescinded>>

\* resourceOffers is invoked with a list of k offers; an empty list returns
\* at once.
resourceOffersCall ==
  \E k \in 0..MaxBatch :
    /\ CanCall
    /\ ncalls' = ncalls + 1
    /\ lastcb' = Callback("resourceOffers", FALSE, <<>>)
    /\ cur' = NoHandling
    /\ n' = k
    /\ pos' = 0
    /\ pc' = IF k = 0 THEN "idle" ELSE "offers"
    /\ UNCHANGED <<executor, mainVars, thr, progVars, offerObs, rescinded, statusObs>>

\* One iteration of "for offer in offers".  The callback ends when the list
\* is exhausted or an exception leaves the loop.
resourceOffersStep ==
  \E offer \in Offers, resp \in Responses :
    LET r == HandleOffer(offer, resp)
    IN /\ pc = "offers"
       /\ tasksLaunched' = tasksLaunched + r.inc
       /\ cur' = [handled |-> TRUE, offer |-> <<offer>>,
                  request |-> r.request, resp |-> r.resp,
                  launches |-> r.launches, inc |-> r.inc,
                  raised |-> r.raised, hung |-> r.hung]
       /\ consumed' =
            consumed \cup {r.launches[i].offer_id : i \in 1..Len(r.launches)}
       /\ submitted' = submitted + TaskCount(r.launches)
       /\ pos' = pos + 1
       /\ pc' = IF r.hung THEN "hung"
                ELSE IF r.raised \/ pos + 1 = n THEN "idle"
                ELSE "offers"
       /\ lastcb' = [lastcb EXCEPT !.raised = r.raised]
       /\ UNCHANGED <<executor, mainVars, thr, tasksFinished, n, ncalls, rescinded, statusObs>>

\* status = 0 if driver.run() == mesos_pb2.DRIVER_STOPPED else 1, always 0
ExitStatusZero(result) == 0

\* status = 0 if driver.run() == mesos_pb2.DRIVER_STOPPED else 1
ExitStatus(result) == IF result = "DRIVER_STOPPED" THEN 0 ELSE 1

\* The driver is stopped from outside while no callback is running.
driverStop ==
  /\ pc = "idle"
  /\ driver = "DRIVER_RUNNING"
  /\ driver' = "DRIVER_STOPPED"
  /\ UNCHANGED <<executor, exit, thr, progVars, pc, n, pos, cur, lastcb, ncalls,
                 offerObs, rescinded, statusObs>>

\* driver.run() returns and the process exits with the status computed
\* from its result.
mainExit ==
  /\ pc = "idle"
  /\ driver # "DRIVER_RUNNING"
  /\ exit = <<>>
  /\ exit' = <<ExitStatus(driver)>>
  /\ UNCHANGED <<executor, driver, thr, progVars, pc, n, pos, cur, lastcb, ncalls,
                 offerObs, rescinded, statusObs>>

Next ==
  \/ registered
  \/ reregistered
  \/ disconnected
  \/ resourceOffersCall
  \/ resourceOffersStep
  \/ offerRescinded
  \/ statusUpdate
  \/ frameworkMessage
  \/ slaveLost
  \/ executorLost
  \/ error
  \/ driverStop
  \/ mainExit

Spec == Init /\ [][Next]_vars

\* A callback in progress takes its next step unless it is blocked, and the
\* main thread proceeds once driver.run() has returned.
SpecLive ==
  /\ Init
  /\ [][Next]_vars
  /\ WF_vars(resourceOffersStep)
  /\ WF_vars(mainExit)

\* The main thread and the callbacks that are not resourceOffers.
NextMain ==
  \/ registered
  \/ reregistered
  \/ disconnected
  \/ offerRescinded
  \/ statusUpdate
  \/ frameworkMessage
  \/ slaveLost
  \/ executorLost
  \/ error
  \/ driverStop
  \/ mainExit

\* The main thread proceeds once driver.run() has returned.
SpecMain == Init /\ [][NextMain]_vars /\ WF_vars(mainExit)

\* ---------------------------------------------- callbacks on two threads
\* What a thread is asked to run: statusUpdate with TASK_FINISHED for task
\* id, or resourceOffers with one offer.
Work ==
  {[kind |-> "statusUpdate", id |-> t] : t \in TaskIds}
    \cup {[kind |-> "resourceOffers", id |-> ""]}

\* What a thread's loop iteration has done with its offer while it waits
\* inside requests.post: the request is sent, no answer is read.
ThreadWaiting ==
  [handled |-> TRUE, offer |-> <<OfferA>>, request |-> OfferInfo(OfferA).info,
   resp |-> <<>>, launches |-> <<>>, inc |-> 0, raised |-> FALSE,
   hung |-> FALSE]

\* What a thread's loop iteration has done with its offer once the answer
\* with total TaskSpecs is read, inc increments are made, and the
\* launchTasks call is made or not yet.
ThreadHandling(total, inc, launched) ==
  LET r == HandleOffer(OfferA, HttpResponse(200, TRUE, GoodBody(total)))
  IN [handled |-> TRUE, offer |-> <<OfferA>>, request |-> r.request,
      resp |-> r.resp, launches |-> IF launched THEN r.launches ELSE <<>>,
      inc |-> inc, raised |-> FALSE, hung |-> FALSE]

\* Some thread other than i is inside resourceOffers.
OtherInOffers(i) ==
  \E j \in Threads \ {i} :
    thr[j].kind = "resourceOffers" /\ thr[j].pc # "idle"

\* A thread enters a callback: statusUpdate logs the state and comes to its
\* read of the counter; resourceOffers takes its offer, sends the request
\* and waits inside requests.post.
threadCall ==
  \E i \in Threads, w \in Work :
    /\ thr[i].pc = "idle"
    /\ driver = "DRIVER_RUNNING"
    /\ ncalls < MaxCallbacks
    /\ ncalls' = ncalls + 1
    /\ thr' = [thr EXCEPT ![i] =
                 IF w.kind = "statusUpdate"
                   THEN [pc |-> "load", kind |-> w.kind, total |-> 1,
                         left |-> 1, tmp |-> 0]
                 ELSE [pc |-> "wait", kind |-> w.kind, total |-> 0,
                       left |-> 0, tmp |-> 0]]
    /\ IF w.kind = "statusUpdate"
         THEN /\ lastcb' = Callback("statusUpdate", FALSE,
                                    <<w.id, TASK_FINISHED>>)
              /\ reported' = [reported EXCEPT ![w.id] = <<TASK_FINISHED>>]
              /\ finishedSeen' = finishedSeen + 1
              /\ finishedIds' = finishedIds \cup {w.id}
              /\ terminalIds' = terminalIds \cup {w.id}
              /\ cur' = IF pc = "idle" THEN NoHandling ELSE cur
              /\ UNCHANGED <<pc, n, pos>>
         ELSE /\ lastcb' = Callback("resourceOffers", FALSE, <<>>)
              /\ cur' = ThreadWaiting
              /\ pc' = "offers"
              /\ n' = 1
              /\ pos' = 1
              /\ UNCHANGED statusObs
    /\ UNCHANGED <<executor, mainVars, progVars, offerObs, rescinded>>

\* requests.post returns in a waiting thread: the decision service answers
\* with total complete TaskSpecs, and the thread comes to its first read of
\* the counter.
threadAnswer ==
  \E i \in Threads, total \in 1..MaxTasks :
    /\ thr[i].pc = "wait"
    /\ thr' = [thr EXCEPT ![i] = [@ EXCEPT !.pc = "load", !.total = total,
                                           !.left = total]]
    /\ cur' = ThreadHandling(total, 0, FALSE)
    /\ UNCHANGED <<executor, mainVars, progVars, pc, n, pos, lastcb, ncalls,
                   offerObs, rescinded, statusObs>>

\* "counter += 1", first half: the thread reads the counter.
threadLoad ==
  \E i \in Threads :
    /\ thr[i].pc = "load"
    /\ thr' = [thr EXCEPT ![i].pc = "store",
                          ![i].tmp = IF thr[i].kind = "resourceOffers"
                                     THEN tasksLaunched ELSE tasksFinished]
    /\ UNCHANGED <<executor, mainVars, progVars, pc, n, pos, cur, lastcb,
                   ncalls, offerObs, rescinded, statusObs>>

\* "counter += 1", second half: the thread writes back what it read plus 1.
threadStore ==
  \E i \in Threads :
    /\ thr[i].pc = "store"
    /\ tasksLaunched' = IF thr[i].kind = "resourceOffers"
                        THEN thr[i].tmp + 1 ELSE tasksLaunched
    /\ tasksFinished' = IF thr[i].kind = "statusUpdate"
                        THEN thr[i].tmp + 1 ELSE tasksFinished
    /\ thr' = [thr EXCEPT ![i] =
                 IF thr[i].left > 1
                   THEN [@ EXCEPT !.pc = "load", !.left = @ - 1]
                 ELSE IF thr[i].kind = "resourceOffers"
                   THEN [@ EXCEPT !.pc = "launch", !.left = 0]
                 ELSE ThreadIdle]
    /\ cur' = IF thr[i].kind = "resourceOffers"
                THEN ThreadHandling(thr[i].total,
                                    thr[i].total - thr[i].left + 1, FALSE)
              ELSE cur
    /\ UNCHANGED <<executor, mainVars, pc, n, pos, lastcb, ncalls, offerObs,
                   rescinded, statusObs>>

\* driver.launchTasks with the tasks the thread built; resourceOffers
\* returns.
threadLaunch ==
  \E i \in Threads :
    /\ thr[i].pc = "launch"
    /\ submitted' = submitted + thr[i].total
    /\ consumed' = consumed \cup {OfferA.id}
    /\ cur' = ThreadHandling(thr[i].total, thr[i].total, TRUE)
    /\ pc' = IF OtherInOffers(i) THEN "offers" ELSE "idle"
    /\ thr' = [thr EXCEPT ![i] = ThreadIdle]
    /\ UNCHANGED <<executor, mainVars, progVars, n, pos, lastcb, ncalls,
                   rescinded, statusObs>>

NextConc ==
  \/ threadCall
  \/ threadAnswer
  \/ threadLoad
  \/ threadStore
  \/ threadLaunch

SpecConc == Init /\ [][NextConc]_vars

TypeOK ==
  /\ tasksLaunched \in Nat
  /\ tasksFinished \in Nat
  /\ pc \in {"idle", "offers", "hung"}
  /\ pos \in 0..n
  /\ ncalls \in 0..MaxCallbacks

\* ------------------------------------------------------- claim vocabulary
\* the decision service's answer to the offer of the current iteration
Answered == cur.handled /\ Len(cur.resp) = 1

\* the request succeeded: a response with a success status and a JSON body
Succeeded(resp) == resp.kind = "http" /\ resp.status = 200 /\ resp.json

\* the request failed: no connection, a non-success status or a body that is
\* not JSON
Failed(resp) == resp.kind = "neterr" \/ resp.status # 200 \/ ~resp.json

AllWellFormed(body) == \A i \in 1..Len(body) : WellFormed(body[i])

\* position of a task state along STAGING -> STARTING -> RUNNING -> terminal
Rank(state) ==
  IF state = TASK_STAGING THEN 0
  ELSE IF state = TASK_STARTING THEN 1
  ELSE IF state = TASK_RUNNING THEN 2
  ELSE 3

\* this step is one iteration of the loop of resourceOffers
IsOfferStep == pos' = pos + 1

\* this step is a statusUpdate for task id t
IsStatusUpdateOf(t) ==
  /\ ncalls' = ncalls + 1
  /\ lastcb'.name = "statusUpdate"
  /\ lastcb'.arg[1] = t

\* ------------------------------------------------------------------ claims
\* C1: an offer whose decision request succeeds with a non-empty list of
\* well-formed TaskSpecs gets exactly one launchTasks call, against its own
\* id, carrying one task per TaskSpec returned.
ThmC1 ==
  (/\ Answered
   /\ Succeeded(cur.resp[1])
   /\ cur.resp[1].body # <<>>
   /\ AllWellFormed(cur.resp[1].body))
  => /\ Len(cur.launches) = 1
     /\ cur.launches[1].offer_id = cur.offer[1].id
     /\ Len(cur.launches[1].tasks) = Len(cur.resp[1].body)
     /\ \A i \in 1..Len(cur.resp[1].body) :
          cur.launches[1].tasks[i].task_id = Str(cur.resp[1].body[i].id)

WitC1 ==
  /\ Answered
  /\ Succeeded(cur.resp[1])
  /\ Len(cur.resp[1].body) = 2
  /\ AllWellFormed(cur.resp[1].body)
  /\ Len(cur.launches) = 1
  /\ Len(cur.launches[1].tasks) = 2

\* C2 as stated: an offer whose decision request fails, or is answered with
\* an empty list, gets no launchTasks call.
CexC2 ==
  (/\ Answered
   /\ \/ Failed(cur.resp[1])
      \/ (cur.resp[1].json /\ cur.resp[1].body = <<>>))
  => Len(cur.launches) = 0

\* C3 as stated: a failed decision request lets no exception escape
\* resourceOffers, and the callback ends only after every offer of the batch
\* was taken.
CexC3 ==
  (Answered /\ Failed(cur.resp[1]))
  => /\ ~cur.raised
     /\ pc = "idle" => pos = n

\* C4 as stated: tasksFinished is the number of distinct task ids that
\* received a FINISHED update.
CexC4 == tasksFinished = Cardinality(finishedIds)

\* C5 as stated: an update for a task id that already received a terminal
\* update changes neither that task's state nor tasksFinished.
CexC5 ==
  [][\A t \in terminalIds :
       IsStatusUpdateOf(t)
       => /\ reported'[t] = reported[t]
          /\ tasksFinished' = tasksFinished]_vars

\* C6 as stated: no update moves a task's state to an earlier one.
CexC6 ==
  [][\A t \in TaskIds :
       (Len(reported[t]) = 1 /\ Len(reported'[t]) = 1)
       => Rank(reported'[t][1]) >= Rank(reported[t][1])]_vars

\* C7: every launchTasks call carries one TaskInfo per TaskSpec of the
\* answer, in the answer's order, each with the TaskSpec's id, the offer's
\* slave id, the framework's executor and the cpus and mem of the TaskSpec.
ThmC7 ==
  cur.handled =>
    \A c \in 1..Len(cur.launches) :
      LET tasks == cur.launches[c].tasks
          body == cur.resp[1].body
      IN /\ Len(tasks) = Len(body)
         /\ \A i \in 1..Len(tasks) :
              /\ tasks[i].task_id = Str(body[i].id)
              /\ tasks[i].slave_id = cur.offer[1].slave_id
              /\ tasks[i].executor = executor
              /\ tasks[i].resources =
                   <<[name |-> "cpus", type |-> SCALAR, value |-> body[i].cpus],
                     [name |-> "mem", type |-> SCALAR, value |-> body[i].mem]>>

WitC7 ==
  /\ cur.handled
  /\ Len(cur.launches) = 1
  /\ Len(cur.launches[1].tasks) = 2
  /\ cur.request[1].resources["cpus"] = 4
  /\ cur.request[1].resources["mem"] = 2048
  /\ cur.launches[1].tasks[1].task_id = "t1"
  /\ cur.launches[1].tasks[1].resources[1].value = 1
  /\ cur.launches[1].tasks[1].resources[2].value = 256
  /\ cur.launches[1].tasks[2].task_id = "2"
  /\ cur.launches[1].tasks[2].executor.command = "/srv/framework/executor.py"

\* C8 as stated: whenever no resourceOffers call is in progress,
\* tasksLaunched is the number of TaskInfos submitted through launchTasks.
CexC8 == pc = "idle" => tasksLaunched = submitted

\* C9 as stated: no launchTasks call is made against an offer id that an
\* earlier launchTasks call already used.
CexC9 ==
  [][IsOfferStep =>
       \A i \in 1..Len(cur'.launches) :
         cur'.launches[i].offer_id \notin consumed]_vars

\* C10 as stated: no launchTasks call is made against an offer id after
\* offerRescinded was received for it.
CexC10 ==
  [][IsOfferStep =>
       \A i \in 1..Len(cur'.launches) :
         cur'.launches[i].offer_id \notin rescinded]_vars

\* this step is the callback with this name
IsCallback(name) == ncalls' = ncalls + 1 /\ lastcb'.name = name

\* the offer carries a resource or attribute whose tag is not one of the
\* four known ones
HasUnknownTag(offer) ==
  LET known == {TYPE_SCALAR, TYPE_RANGES, TYPE_SET, TYPE_TEXT}
  IN \/ \E i \in 1..Len(offer.resources) : offer.resources[i].type \notin known
     \/ \E i \in 1..Len(offer.attributes) : offer.attributes[i].type \notin known

\* C11: offerRescinded for an offer id that a launchTasks call already used
\* makes no call on the driver or the decision service and leaves both
\* counters and everything recorded about tasks as they were.
ThmC11 ==
  [][\A o \in consumed :
       (IsCallback("offerRescinded") /\ lastcb'.arg[1] = o)
       => /\ tasksLaunched' = tasksLaunched
          /\ tasksFinished' = tasksFinished
          /\ submitted' = submitted
          /\ consumed' = consumed
          /\ reported' = reported
          /\ cur'.launches = <<>>
          /\ cur'.request = <<>>
          /\ ~lastcb'.raised]_vars

WitC11 ==
  /\ lastcb.name = "offerRescinded"
  /\ lastcb.arg[1] \in consumed
  /\ tasksLaunched > 0

\* C12 as stated: no TaskInfo passed to launchTasks asks for more cpus or
\* mem than the offer it is launched against provides.
CexC12 ==
  cur.handled =>
    \A c \in 1..Len(cur.launches) :
      \A i \in 1..Len(cur.launches[c].tasks) :
        /\ cur.launches[c].tasks[i].resources[1].value
             <= cur.request[1].resources["cpus"]
        /\ cur.launches[c].tasks[i].resources[2].value
             <= cur.request[1].resources["mem"]

\* C13: no step decreases tasksLaunched or tasksFinished, and disconnected
\* and reregistered leave both exactly as they were.
ThmC13 ==
  [][/\ tasksLaunched' >= tasksLaunched
     /\ tasksFinished' >= tasksFinished
     /\ (IsCallback("disconnected") \/ IsCallback("reregistered"))
        => /\ tasksLaunched' = tasksLaunched
           /\ tasksFinished' = tasksFinished]_vars

WitC13 ==
  /\ lastcb.name = "reregistered"
  /\ tasksLaunched + tasksFinished > 0

\* C14: statusUpdate returns normally for every task id and state, makes no
\* launchTasks call and leaves tasksLaunched alone.
ThmC14 ==
  [][IsCallback("statusUpdate")
     => /\ ~lastcb'.raised
        /\ tasksLaunched' = tasksLaunched
        /\ submitted' = submitted
        /\ consumed' = consumed
        /\ cur'.launches = <<>>]_vars

\* an update for a task although nothing was ever launched
WitC14 ==
  /\ lastcb.name = "statusUpdate"
  /\ submitted = 0
  /\ tasksLaunched = 0
  /\ ~lastcb.raised

\* C15: once the error callback fired the process exits with status 1, and
\* it exits with status 0 exactly when driver.run() returned DRIVER_STOPPED.
ThmC15 ==
  /\ (lastcb.name = "error") ~> (exit = <<1>>)
  /\ [](exit = <<0>> => driver = "DRIVER_STOPPED")
  /\ [](exit = <<1>> => driver # "DRIVER_STOPPED")

WitC15 ==
  /\ lastcb.name = "error"
  /\ driver = "DRIVER_ABORTED"
  /\ exit = <<1>>

\* C16: an offer with an unknown tag fails to decode; no request is sent to
\* the decision service for it, no launchTasks call is made and
\* tasksLaunched stays as it was.
ThmC16 ==
  [][(IsOfferStep /\ HasUnknownTag(cur'.offer[1]))
     => /\ cur'.raised
        /\ cur'.request = <<>>
        /\ cur'.launches = <<>>
        /\ tasksLaunched' = tasksLaunched
        /\ submitted' = submitted
        /\ consumed' = consumed]_vars

WitC16 ==
  /\ cur.handled
  /\ HasUnknownTag(cur.offer[1])
  /\ cur.raised
  /\ pc = "idle"

\* C17 as stated: every resourceOffers call in progress eventually returns.
CexC17 == (pc = "offers") ~> (pc = "idle")

\* C19 as stated: while the decision request for one offer of a batch is
\* outstanding and more offers of the batch wait, the request for the next
\* offer can be issued.
CexC19 == (pc = "hung" /\ pos < n) => ENABLED resourceOffersStep

\* C20 as stated: slaveLost and executorLost return without raising and
\* make no launchTasks call.
CexC20 ==
  lastcb.name \in {"slaveLost", "executorLost"}
  => ~lastcb.raised /\ cur.launches = <<>>

\* C18 as stated: once every thread has left its callback, tasksLaunched
\* is the number of launch requests built and tasksFinished the number of
\* FINISHED updates counted.
CexC18 ==
  (\A i \in Threads : thr[i].pc = "idle")
  => /\ tasksLaunched = submitted
     /\ tasksFinished = finishedSeen

====
